---- MODULE Spec2Model ----
(***************************************************************************)
(* The subtitle pipeline of stremio-hebrew-subtitles: resolve an English   *)
(* subtitle in the catalog, download it, translate it, write it under      *)
(* subs/ and return a reference that the static file host serves.          *)
(*                                                                         *)
(* The repository holds three revisions of the add-on:                     *)
(*   "1.0.5"  src/index.js 1-289     (builder.defineSubtitlesHandler)      *)
(*   "1.0.3"  src/index.js 290-563   (handleSubtitleRequest, manual route) *)
(*   "1.0.0"  src/unnamed/part_000   (first handler, no error handling)    *)
(* One of them is deployed; rev names it (the manifest's version).         *)
(*                                                                         *)
(* Strings the code computes on (ids, file names) are sequences of         *)
(* one-character strings; a path is a sequence of such segments, counted   *)
(* from the file system's root.                                            *)
(***************************************************************************)
EXTENDS Naturals, Sequences, FiniteSets

(* ------------------------------ bounds -------------------------------- *)

\* Concurrent subtitle requests.
NReq == 2
\* Blocks a translated file is written and read in.
NBlocks == 2
\* Distinct non-identity outputs the translation service may give per text.
NVariants == 1

(* ------------------------- program constants --------------------------- *)

\* axios timeout of the two catalog calls, in ms.
CatalogTimeout == 10000
\* axios timeout of the subtitle download, in ms.
DownloadTimeout == 15000
\* No timeout option is passed (axios: 0 means none).
NoTimeout == 0

V105 == "1.0.5"
V103 == "1.0.3"
V100 == "1.0.0"
Revisions == {V105, V103, V100}

(* ------------------------------ strings -------------------------------- *)

Digits == {"0", "1", "2", "3", "4", "5", "6", "7", "8", "9"}

\* JavaScript null / undefined where a string is expected.
Null == <<>>

\* '_he.srt'
Suffix == <<"_", "h", "e", ".", "s", "r", "t">>

\* The number of digits of s from position i on (\d+ is greedy).
RECURSIVE DigitRun(_, _)
DigitRun(s, i) ==
  IF i <= Len(s) /\ s[i] \in Digits THEN 1 + DigitRun(s, i + 1) ELSE 0

\* id.match(/^(tt\d+)/), group 1; Null when there is no match.
ImdbMatch(id) ==
  IF Len(id) >= 3 /\ id[1] = "t" /\ id[2] = "t" /\ id[3] \in Digits
  THEN SubSeq(id, 1, 2 + DigitRun(id, 3))
  ELSE Null

\* s.startsWith('tt')
StartsWithTT(s) == Len(s) >= 2 /\ s[1] = "t" /\ s[2] = "t"

\* The first position of 'tt' in s from i on, 0 when there is none.
RECURSIVE IndexOfTT(_, _)
IndexOfTT(s, i) ==
  IF i + 1 > Len(s) THEN 0
  ELSE IF s[i] = "t" /\ s[i + 1] = "t" THEN i
  ELSE IndexOfTT(s, i + 1)

\* s.replace('tt', ''): only the first occurrence is removed.
ReplaceTT(s) ==
  LET i == IndexOfTT(s, 1)
  IN  IF i = 0 THEN s ELSE SubSeq(s, 1, i - 1) \o SubSeq(s, i + 2, Len(s))

\* id.replace(/[:.]/g, '_')
ReplaceColonDot(s) ==
  [i \in 1..Len(s) |-> IF s[i] \in {":", "."} THEN "_" ELSE s[i]]

(* ------------------------------- paths --------------------------------- *)

\* s.split('/'), from position i on with cur the segment read so far.
RECURSIVE SplitFrom(_, _, _)
SplitFrom(s, i, cur) ==
  IF i > Len(s) THEN <<cur>>
  ELSE IF s[i] = "/" THEN <<cur>> \o SplitFrom(s, i + 1, <<>>)
  ELSE SplitFrom(s, i + 1, Append(cur, s[i]))

Split(s) == SplitFrom(s, 1, <<>>)

Dot == <<".">>
DotDot == <<".", ".">>

\* path.normalize of an absolute path: '' and '.' segments dropped, '..'
\* removes the segment before it (the root is its own parent).
RECURSIVE NormalizeOnto(_, _)
NormalizeOnto(stack, segs) ==
  IF segs = <<>> THEN stack
  ELSE LET s == Head(segs)
       IN  IF s = <<>> \/ s = Dot THEN NormalizeOnto(stack, Tail(segs))
           ELSE IF s = DotDot
           THEN NormalizeOnto(IF stack = <<>> THEN stack
                              ELSE SubSeq(stack, 1, Len(stack) - 1), Tail(segs))
           ELSE NormalizeOnto(Append(stack, s), Tail(segs))

\* __dirname and path.join(__dirname, 'subs')
AppDir == << <<"a", "p", "p">> >>
subsDir == Append(AppDir, <<"s", "u", "b", "s">>)

\* path.join(dir, name) for an absolute dir.
PathJoin(dir, name) == NormalizeOnto(<<>>, dir \o Split(name))

\* path.basename(p)
Basename(p) == IF p = <<>> THEN <<>> ELSE p[Len(p)]

\* The directory part of a path.
Dirname(p) == IF p = <<>> THEN <<>> ELSE SubSeq(p, 1, Len(p) - 1)

\* The kernel's walk of a path's directory components from directory cwd,
\* among the directories ds: every component must name an existing
\* directory, '..' is the parent of the directory reached. The result is
\* the directory reached, or NoEnt (no directory has that name: its one
\* segment is no sequence of characters).
NoEnt == << <<"ENOENT">> >>
RECURSIVE Walk(_, _, _)
Walk(ds, cwd, segs) ==
  IF segs = <<>> THEN cwd
  ELSE LET s == Head(segs)
           nxt == IF s = <<>> \/ s = Dot THEN cwd
                  ELSE IF s = DotDot
                  THEN (IF cwd = <<>> THEN cwd ELSE SubSeq(cwd, 1, Len(cwd) - 1))
                  ELSE Append(cwd, s)
       IN  IF nxt \in ds THEN Walk(ds, nxt, Tail(segs)) ELSE NoEnt


(* ------------------------------- inputs -------------------------------- *)

\* Inbound ids: 'tt0111161', '0111161', 'tt0111161:1:2', 'tt1/../../x'
\* (a route parameter is URL-decoded, so %2F arrives as '/'), 'tt../x',
\* 'tt0111161_1_2', 'tt0111161:1:3'.
IdMovie == <<"t", "t", "0", "1", "1", "1", "1", "6", "1">>
IdBare == <<"0", "1", "1", "1", "1", "6", "1">>
IdEpisode == IdMovie \o <<":", "1", ":", "2">>
IdSlash == <<"t", "t", "1", "/", ".", ".", "/", ".", ".", "/", "x">>
IdDots == <<"t", "t", ".", ".", "/", "x">>
IdUnderscore == IdMovie \o <<"_", "1", "_", "2">>
IdEpisode2 == IdMovie \o <<":", "1", ":", "3">>
RawIds == {IdMovie, IdBare, IdEpisode, IdSlash, IdDots, IdUnderscore, IdEpisode2}

\* What the subtitle download can deliver (res.data), by the attributes the
\* code and the properties look at: a string or not, its length in characters,
\* whether it is blank after trim(), whether it holds a '-->' separator,
\* its lines and its blank-line separated entries.
DocEmpty == [name |-> "empty", isString |-> TRUE, len |-> 0, blank |-> TRUE,
             arrow |-> FALSE, lines |-> 0, entries |-> 0]
DocBlank == [name |-> "blank", isString |-> TRUE, len |-> 3, blank |-> TRUE,
             arrow |-> FALSE, lines |-> 2, entries |-> 0]
DocShort == [name |-> "short", isString |-> TRUE, len |-> 2, blank |-> FALSE,
             arrow |-> FALSE, lines |-> 1, entries |-> 1]
DocObject == [name |-> "object", isString |-> FALSE, len |-> 0, blank |-> FALSE,
              arrow |-> FALSE, lines |-> 0, entries |-> 0]
DocSrt == [name |-> "srt", isString |-> TRUE, len |-> 180, blank |-> FALSE,
           arrow |-> TRUE, lines |-> 11, entries |-> 3]
DocBig == [name |-> "big", isString |-> TRUE, len |-> 150000, blank |-> FALSE,
           arrow |-> TRUE, lines |-> 9999, entries |-> 2500]
Docs == {DocEmpty, DocBlank, DocShort, DocObject, DocSrt, DocBig}
NoDoc == [name |-> "none", isString |-> FALSE, len |-> 0, blank |-> FALSE,
          arrow |-> FALSE, lines |-> 0, entries |-> 0]

\* A translated text: the text it was made from and which of the service's
\* possible answers it is; variant 0 is the input returned unchanged (an
\* identity translator). EmptyOut is the empty string.
Outs == [src : {d.name : d \in Docs}, var : 0..NVariants]
EmptyOut == [src |-> "", var |-> 0]
NoOut == [src |-> "none", var |-> 0]

\* The bytes of a translated text, in the blocks they are written and read in.
Bytes(o) ==
  IF o = EmptyOut THEN <<>> ELSE [i \in 1..NBlocks |-> [out |-> o, blk |-> i]]

\* What the catalog search, the download-link call and the translation call
\* can answer; "error" is a rejected call (network error, error status),
\* "timeout" the call's own timeout firing. "nextHasFile" is a list whose
\* first result has no file and whose second has one.
SearchAnswers == {"error", "timeout", "noData", "noList", "emptyList",
                  "firstNoAttrs", "firstNoFiles", "nextHasFile", "firstHasFile"}
LinkAnswers == {"error", "timeout", "noData", "noLink", "link"}
ChatAnswers == {"error", "timeout", "noChoices", "noMessage", "emptyContent", "content"}

(* -------------------------------- state -------------------------------- *)

VARIABLES
  rev,       \* the deployed revision
  load,      \* what the clients and the services send in this run
  dirs,      \* the directories that exist
  files,     \* path -> the blocks of the file there
  lastPut,   \* path -> the last write there: [out, clean]
  pc,        \* request -> where its handler is
  rid,       \* request -> the inbound id
  query,     \* request -> the imdb_id given to the catalog
  text,      \* request -> the downloaded text
  out,       \* request -> the translated text
  wpath,     \* request -> the file its writeFileSync has open
  wpos,      \* request -> the blocks its writeFileSync has written
  result,    \* request -> what the handler returned
  warm,      \* request -> it began after a success for the same id
  calls,     \* request -> the stages it has called, in order
  catalog,   \* request -> the answers the catalog has given it, in order
  fileUrl,   \* request -> what getEnglishSubtitleFileUrl gave the handler
  rd         \* the static file host's read in progress

vars == <<rev, load, dirs, files, lastPut, pc, rid, query, text, out, wpath,
          wpos, result, warm, calls, catalog, fileUrl, rd>>

Req == 1..NReq

\* The runs explored: every id with an ordinary subtitle, one id with every
\* kind of downloaded text, and one id with an ordinary subtitle while a
\* client fetches translated files from the static host.
Workloads ==
  {[ids |-> RawIds, docs |-> {DocSrt}, gets |-> FALSE],
   [ids |-> {IdMovie}, docs |-> Docs, gets |-> FALSE],
   [ids |-> {IdMovie}, docs |-> {DocSrt}, gets |-> TRUE]}

NoResult == [kind |-> "none", subtitles |-> <<>>]
\* { subtitles: [] }
EmptyResult == [kind |-> "returned", subtitles |-> <<>>]
\* The handler's promise rejected: the fault reached the protocol layer.
Rejected == [kind |-> "rejected", subtitles |-> <<>>]

IdleReader == [st |-> "idle", path |-> <<>>, size |-> 0, seen |-> <<>>]

\* A writeFileSync is running: it is synchronous, nothing else of the
\* JavaScript thread runs until it has returned.
Busy == \E r \in Req : pc[r] = "writing"

Awaiting == {"search", "link", "download", "translate"}

(* ------------------- the code's functions, per revision ----------------- *)

\* The handler's check of the inbound id before anything is called.
Accepts(v, id) ==
  CASE v = V105 -> ImdbMatch(id) # Null
    [] v = V103 -> id # Null /\ StartsWithTT(id)
    [] OTHER -> TRUE

\* The imdb_id the handler gives to getEnglishSubtitleFileUrl.
CatalogId(v, id) ==
  IF v = V105 THEN ReplaceTT(ImdbMatch(id)) ELSE ReplaceTT(id)

\* The timeout option of each external call (ms); NoTimeout when none is given.
TimeoutOf(v, stage) ==
  CASE v = V100 -> NoTimeout
    [] stage \in {"search", "link"} -> CatalogTimeout
    [] stage = "download" -> DownloadTimeout
    [] OTHER -> NoTimeout

\* getEnglishSubtitleFileUrl once the search has answered: "post" (the
\* download-link call is made for the first result's first file), "null"
\* (it returns null) or "throw" (it throws).
UrlAfterSearch(v, a) ==
  IF v = V100
  THEN CASE a \in {"error", "timeout", "noData", "firstNoAttrs", "firstNoFiles",
                   "nextHasFile"} -> "throw"
         [] a \in {"noList", "emptyList"} -> "null"
         [] OTHER -> "post"
  ELSE IF a = "firstHasFile" THEN "post" ELSE "null"

\* getEnglishSubtitleFileUrl once the download-link call has answered.
UrlAfterLink(v, a) ==
  IF v = V100
  THEN CASE a \in {"error", "timeout", "noData"} -> "throw"
         [] a = "noLink" -> "null"
         [] OTHER -> "url"
  ELSE IF a = "link" THEN "url" ELSE "null"

\* downloadSubtitleText when the GET fails: null, or the fault itself.
DownloadFailed(v) == IF v = V100 THEN "throw" ELSE "null"

\* The handler's check of the downloaded text: !originalSrt ends the request.
KeepsText(v, d) == v = V100 \/ ~(d.isString /\ d.len = 0)

\* translateToHebrew's guard: whether the translation service is called.
CallsTranslator(v, d) == v = V100 \/ (d.isString /\ d.len > 0 /\ ~d.blank)

\* translateToHebrew once the service has answered.
AfterChat(v, a) ==
  IF v = V100
  THEN CASE a \in {"error", "timeout", "noChoices", "noMessage"} -> "throw"
         [] a = "emptyContent" -> "empty"
         [] OTHER -> "content"
  ELSE IF a = "content" THEN "content" ELSE "null"

\* What a fault thrown inside the handler becomes: 1.0.5 and 1.0.3 catch it
\* and return the empty result, 1.0.0 has no try and its promise rejects.
Thrown(v) == IF v = V100 THEN Rejected ELSE EmptyResult

\* SaveName with the series suffix lost: the name made from the matched
\* 'tt<digits>' alone.
SaveNameBaseOnly(v, id) ==
  CASE v = V105 -> ImdbMatch(id) \o Suffix
    [] v = V103 -> id \o Suffix
    [] OTHER -> ReplaceTT(id) \o Suffix

\* The file name saveSubtitleToFile is given, with the suffix.
SaveName(v, id) ==
  CASE v = V105 -> ReplaceColonDot(id) \o Suffix
    [] v = V103 -> id \o Suffix
    [] OTHER -> ReplaceTT(id) \o Suffix

\* The path given to writeFileSync, as segments, and the directory the
\* kernel resolves it from: path.join gives an absolute path, 1.0.0 uses
\* './subs/<name>' relative to the working directory.
DotSubs == <<".", "/", "s", "u", "b", "s", "/">>
SaveSegs(v, id) ==
  IF v = V100 THEN Split(DotSubs \o SaveName(v, id))
  ELSE PathJoin(subsDir, SaveName(v, id))
SaveCwd(v) == IF v = V100 THEN AppDir ELSE <<>>

\* The file open(path) names among the directories ds, NoEnt when a
\* directory of the path does not exist.
Target(ds, v, id) ==
  LET segs == SaveSegs(v, id)
      d == Walk(ds, SaveCwd(v), Dirname(segs))
  IN  IF d = NoEnt THEN NoEnt ELSE Append(d, Basename(segs))

\* Whether the revision creates subs/ on the way to the write when it is missing.
MakesDir(v) == v \in {V105, V100}

SubsUrl == <<"/", "s", "u", "b", "s", "/">>
AiHe == <<"a", "i", "-", "h", "e", "-">>
HebrewAi == <<"h", "e", "b", "r", "e", "w", "-", "a", "i">>

\* The value the handler returns after a write.
Reference(v, id) ==
  IF v = V100
  THEN [id |-> HebrewAi, lang |-> "he", url |-> SubsUrl \o SaveName(v, id)]
  ELSE [id |-> AiHe \o id, lang |-> "heb",
        url |-> SubsUrl \o Basename(SaveSegs(v, id))]
Success(v, id) == [kind |-> "returned", subtitles |-> <<Reference(v, id)>>]

\* Opened without O_TRUNC: an existing file keeps its content.
OpenedNoTrunc(fs, p) ==
  [q \in DOMAIN fs \cup {p} |-> IF q \in DOMAIN fs THEN fs[q] ELSE <<>>]

\* fs.writeFileSync opens with flag 'w': the file is created or truncated.
Opened(fs, p) == [q \in DOMAIN fs \cup {p} |-> IF q = p THEN <<>> ELSE fs[q]]

\* One write(2) of writeFileSync's loop, after k blocks: the next block of
\* o goes to the file position, which the k writes before it have moved.
Written(fs, p, o, k) ==
  [fs EXCEPT ![p] = IF k < Len(@) THEN [@ EXCEPT ![k + 1] = Bytes(o)[k + 1]]
                    ELSE Append(@, Bytes(o)[k + 1])]

\* messages[1].content of the chat completion a request is awaiting: the
\* whole downloaded text.
Payload(t) == t


(* ------------------------------- actions ------------------------------- *)

Init ==
  /\ rev \in Revisions
  /\ load \in Workloads
  \* the start-up mkdir of subs/ can fail (1.0.5 and 1.0.3 log it and go
  \* on); 1.0.0 creates subs/ only inside the handler
  /\ dirs \in {{<<>>, AppDir}, {<<>>, AppDir, subsDir}}
  /\ files = [q \in {} |-> <<>>]
  /\ lastPut = [q \in {} |-> [out |-> NoOut, clean |-> FALSE]]
  /\ pc = [r \in Req |-> "idle"]
  /\ rid = [r \in Req |-> Null]
  /\ query = [r \in Req |-> Null]
  /\ text = [r \in Req |-> NoDoc]
  /\ out = [r \in Req |-> NoOut]
  /\ wpath = [r \in Req |-> <<>>]
  /\ wpos = [r \in Req |-> 0]
  /\ result = [r \in Req |-> NoResult]
  /\ warm = [r \in Req |-> FALSE]
  /\ calls = [r \in Req |-> <<>>]
  /\ catalog = [r \in Req |-> <<>>]
  /\ fileUrl = [r \in Req |-> "none"]
  /\ rd = IdleReader

\* The handler returns res (or, for Rejected, its promise rejects).
Finish(r, res) ==
  /\ pc' = [pc EXCEPT ![r] = "done"]
  /\ result' = [result EXCEPT ![r] = res]
  /\ text' = [text EXCEPT ![r] = NoDoc]

\* The handler makes the external call of stage st and awaits it.
Issue(r, st) ==
  /\ pc' = [pc EXCEPT ![r] = st]
  /\ calls' = [calls EXCEPT ![r] = Append(@, st)]

\* The answers the pending call of stage st can get: its timeout fires
\* only where the call carries one.
Answers(st, all) ==
  {a \in all : a = "timeout" => TimeoutOf(rev, st) > 0}

\* A subtitle request arrives: the handler runs to its first await.
\* Requests are numbered in the order they arrive.
Start(r) ==
  /\ pc[r] = "idle"
  /\ IF r = 1 THEN TRUE ELSE pc[r - 1] # "idle"
  /\ ~Busy
  /\ \E id \in load.ids :
       /\ rid' = [rid EXCEPT ![r] = id]
       /\ warm' = [warm EXCEPT ![r] =
                     \E q \in Req : /\ pc[q] = "done"
                                    /\ rid[q] = id
                                    /\ result[q].subtitles # <<>>]
       /\ IF Accepts(rev, id)
          THEN /\ Issue(r, "search")
               /\ query' = [query EXCEPT ![r] = CatalogId(rev, id)]
               /\ UNCHANGED <<result, text>>
          ELSE /\ Finish(r, EmptyResult)
               /\ UNCHANGED <<query, calls>>
  /\ UNCHANGED <<rev, load, dirs, files, lastPut, out, wpath, wpos, catalog,
                 fileUrl, rd>>

\* SearchReturn with one retry: a search that was rejected is made again.
SearchReturnRetries(r) ==
  /\ pc[r] = "search"
  /\ ~Busy
  /\ \E a \in Answers("search", SearchAnswers) :
       LET u == UrlAfterSearch(rev, a)
       IN  /\ catalog' = [catalog EXCEPT ![r] = Append(@, a)]
           /\ CASE a = "error" /\ Len(calls[r]) = 1 ->
                                 /\ Issue(r, "search")
                                 /\ UNCHANGED <<result, text, fileUrl>>
                [] u = "post" -> /\ Issue(r, "link")
                                 /\ UNCHANGED <<result, text, fileUrl>>
                [] u = "null" -> /\ Finish(r, EmptyResult)
                                 /\ fileUrl' = [fileUrl EXCEPT ![r] = "null"]
                                 /\ UNCHANGED calls
                [] OTHER -> /\ Finish(r, Thrown(rev))
                            /\ fileUrl' = [fileUrl EXCEPT ![r] = "throw"]
                            /\ UNCHANGED calls
  /\ UNCHANGED <<rev, load, dirs, files, lastPut, rid, query, out, wpath, wpos, warm, rd>>

\* The catalog search answers (or times out).
SearchReturn(r) ==
  /\ pc[r] = "search"
  /\ ~Busy
  /\ \E a \in Answers("search", SearchAnswers) :
       LET u == UrlAfterSearch(rev, a)
       IN  /\ catalog' = [catalog EXCEPT ![r] = Append(@, a)]
           /\ CASE u = "post" -> /\ Issue(r, "link")
                                 /\ UNCHANGED <<result, text, fileUrl>>
                [] u = "null" -> /\ Finish(r, EmptyResult)
                                 /\ fileUrl' = [fileUrl EXCEPT ![r] = "null"]
                                 /\ UNCHANGED calls
                [] OTHER -> /\ Finish(r, Thrown(rev))
                            /\ fileUrl' = [fileUrl EXCEPT ![r] = "throw"]
                            /\ UNCHANGED calls
  /\ UNCHANGED <<rev, load, dirs, files, lastPut, rid, query, out, wpath, wpos, warm, rd>>

\* The download-link call answers (or times out).
LinkReturn(r) ==
  /\ pc[r] = "link"
  /\ ~Busy
  /\ \E a \in Answers("link", LinkAnswers) :
       LET u == UrlAfterLink(rev, a)
       IN  /\ catalog' = [catalog EXCEPT ![r] = Append(@, a)]
           /\ CASE u = "url" -> /\ Issue(r, "download")
                                /\ fileUrl' = [fileUrl EXCEPT ![r] = "url"]
                                /\ UNCHANGED <<result, text>>
                [] u = "null" -> /\ Finish(r, EmptyResult)
                                 /\ fileUrl' = [fileUrl EXCEPT ![r] = "null"]
                                 /\ UNCHANGED calls
                [] OTHER -> /\ Finish(r, Thrown(rev))
                            /\ fileUrl' = [fileUrl EXCEPT ![r] = "throw"]
                            /\ UNCHANGED calls
  /\ UNCHANGED <<rev, load, dirs, files, lastPut, rid, query, out, wpath, wpos, warm, rd>>

\* The subtitle download answers (or times out); the handler checks the
\* text and translateToHebrew runs to its call of the translation service.
DownloadReturn(r) ==
  /\ pc[r] = "download"
  /\ ~Busy
  /\ \/ /\ Answers("download", {"error", "timeout"}) # {}
        /\ Finish(r, IF DownloadFailed(rev) = "throw" THEN Thrown(rev)
                     ELSE EmptyResult)
        /\ UNCHANGED calls
     \/ \E d \in load.docs :
          IF KeepsText(rev, d) /\ CallsTranslator(rev, d)
          THEN /\ Issue(r, "translate")
               /\ text' = [text EXCEPT ![r] = d]
               /\ UNCHANGED result
          ELSE /\ Finish(r, EmptyResult)
               /\ UNCHANGED calls
  /\ UNCHANGED <<rev, load, dirs, files, lastPut, rid, query, out, wpath, wpos, warm,
                 catalog, fileUrl, rd>>

\* saveSubtitleToFile (and, in 1.0.0, the handler's mkdir before it) up to
\* writeFileSync's open, for the translated text o: mk and op say whether
\* mkdirSync and open succeed.
SaveOpen(r, o, mk, op) ==
  LET need == MakesDir(rev) /\ subsDir \notin dirs
      ds == IF need /\ mk THEN dirs \cup {subsDir} ELSE dirs
      p == Target(ds, rev, rid[r])
      put(c) == [q \in DOMAIN lastPut \cup {p} |->
                   IF q = p THEN [out |-> o, clean |-> c] ELSE lastPut[q]]
  IN  IF need /\ ~mk
      THEN \* mkdirSync throws
           /\ Finish(r, Thrown(rev))
           /\ UNCHANGED <<dirs, files, lastPut, out, wpath, wpos, calls>>
      ELSE /\ dirs' = ds
           /\ calls' = [calls EXCEPT ![r] = Append(@, "write")]
           /\ IF p = NoEnt \/ ~op
              THEN \* open fails: ENOENT, EACCES
                   /\ Finish(r, Thrown(rev))
                   /\ UNCHANGED <<files, lastPut, out, wpath, wpos>>
              ELSE /\ files' = Opened(files, p)
                   /\ out' = [out EXCEPT ![r] = o]
                   /\ wpath' = [wpath EXCEPT ![r] = p]
                   /\ wpos' = [wpos EXCEPT ![r] = 0]
                   /\ IF Bytes(o) = <<>>
                      THEN /\ Finish(r, Success(rev, rid[r]))
                           /\ lastPut' = put(TRUE)
                      ELSE /\ pc' = [pc EXCEPT ![r] = "writing"]
                           /\ lastPut' = put(FALSE)
                           /\ UNCHANGED <<result, text>>

\* TranslateReturn with the file opened before the answer is looked at: a
\* failed translation leaves the file truncated.
TranslateReturnOpensFirst(r) ==
  /\ pc[r] = "translate"
  /\ ~Busy
  /\ \E a \in Answers("translate", ChatAnswers) :
       LET t == AfterChat(rev, a)
           p == Target(dirs, rev, rid[r])
       IN  CASE t = "throw" ->
                  /\ Finish(r, Thrown(rev))
                  /\ UNCHANGED <<dirs, files, lastPut, out, wpath, wpos, calls>>
             [] t = "null" ->
                  /\ Finish(r, EmptyResult)
                  /\ files' = IF p = NoEnt THEN files ELSE Opened(files, p)
                  /\ UNCHANGED <<dirs, lastPut, out, wpath, wpos, calls>>
             [] t = "empty" ->
                  \E mk \in BOOLEAN, op \in BOOLEAN : SaveOpen(r, EmptyOut, mk, op)
             [] OTHER ->
                  \E var \in 0..NVariants, mk \in BOOLEAN, op \in BOOLEAN :
                    SaveOpen(r, [src |-> text[r].name, var |-> var], mk, op)
  /\ UNCHANGED <<rev, load, rid, query, warm, catalog, fileUrl, rd>>

\* The translation service answers; on a translated text the handler goes
\* on into saveSubtitleToFile, which runs to writeFileSync's open.
TranslateReturn(r) ==
  /\ pc[r] = "translate"
  /\ ~Busy
  /\ \E a \in Answers("translate", ChatAnswers) :
       LET t == AfterChat(rev, a)
       IN  CASE t = "throw" ->
                  /\ Finish(r, Thrown(rev))
                  /\ UNCHANGED <<dirs, files, lastPut, out, wpath, wpos, calls>>
             [] t = "null" ->
                  /\ Finish(r, EmptyResult)
                  /\ UNCHANGED <<dirs, files, lastPut, out, wpath, wpos, calls>>
             [] t = "empty" ->
                  \E mk \in BOOLEAN, op \in BOOLEAN : SaveOpen(r, EmptyOut, mk, op)
             [] OTHER ->
                  \E var \in 0..NVariants, mk \in BOOLEAN, op \in BOOLEAN :
                    SaveOpen(r, [src |-> text[r].name, var |-> var], mk, op)
  /\ UNCHANGED <<rev, load, rid, query, warm, catalog, fileUrl, rd>>

\* writeFileSync writes its next block; after the last one it closes the
\* file, saveSubtitleToFile returns and the handler returns the reference.
SaveWrite(r) ==
  /\ pc[r] = "writing"
  /\ files' = Written(files, wpath[r], out[r], wpos[r])
  /\ wpos' = [wpos EXCEPT ![r] = @ + 1]
  /\ IF wpos'[r] = Len(Bytes(out[r]))
     THEN /\ Finish(r, Success(rev, rid[r]))
          /\ lastPut' = [lastPut EXCEPT ![wpath[r]] = [out |-> out[r], clean |-> TRUE]]
     ELSE UNCHANGED <<pc, result, text, lastPut>>
  /\ UNCHANGED <<rev, load, dirs, rid, query, out, wpath, warm, calls, catalog,
                 fileUrl, rd>>

\* A write(2) fails (ENOSPC, EIO): writeFileSync throws, the file stays as
\* far as it was written.
SaveWriteFail(r) ==
  /\ pc[r] = "writing"
  /\ Finish(r, Thrown(rev))
  /\ out' = [out EXCEPT ![r] = NoOut]
  /\ UNCHANGED <<rev, load, dirs, files, lastPut, rid, query, wpath, wpos, warm,
                 calls, catalog, fileUrl, rd>>

\* The names a client can ask the static host for: those of the references.
ServedPaths == {Append(subsDir, Basename(SaveSegs(rev, id))) : id \in load.ids}

\* The file express.static(subsDir) serves for the url of a reference: the
\* path after '/subs/' under subs/; a path with a '..' segment is refused.
UrlFile(url) ==
  LET segs == Split(SubSeq(url, Len(SubsUrl) + 1, Len(url)))
  IN  IF \E i \in 1..Len(segs) : segs[i] = DotDot THEN NoEnt
      ELSE NormalizeOnto(subsDir, segs)

\* GET /subs/<name>: express.static stats the file (404 when there is none)
\* and streams it; stat and the reads run on the thread pool, also while
\* the JavaScript thread is inside writeFileSync.
ReaderOpen ==
  /\ load.gets
  /\ rd.st = "idle"
  /\ \E p \in ServedPaths :
       rd' = IF p \in DOMAIN files
             THEN [st |-> "reading", path |-> p, size |-> Len(files[p]), seen |-> <<>>]
             ELSE [st |-> "missing", path |-> p, size |-> 0, seen |-> <<>>]
  /\ UNCHANGED <<rev, load, dirs, files, lastPut, pc, rid, query, text, out,
                 wpath, wpos, result, warm, calls, catalog, fileUrl>>

\* The stream reads its next block, up to the size stat gave, and ends at
\* that size or at the end of the file.
ReaderRead ==
  /\ rd.st = "reading"
  /\ LET n == Len(rd.seen)
         f == files[rd.path]
     IN  IF n < rd.size /\ n < Len(f)
         THEN rd' = [rd EXCEPT !.seen = Append(@, f[n + 1])]
         ELSE rd' = [rd EXCEPT !.st = "served"]
  /\ UNCHANGED <<rev, load, dirs, files, lastPut, pc, rid, query, text, out,
                 wpath, wpos, result, warm, calls, catalog, fileUrl>>

\* The response has been sent; the host takes the next GET.
ReaderClose ==
  /\ rd.st \in {"served", "missing"}
  /\ rd' = IdleReader
  /\ UNCHANGED <<rev, load, dirs, files, lastPut, pc, rid, query, text, out,
                 wpath, wpos, result, warm, calls, catalog, fileUrl>>

Next ==
  \/ \E r \in Req : Start(r)
  \/ \E r \in Req : SearchReturn(r)
  \/ \E r \in Req : LinkReturn(r)
  \/ \E r \in Req : DownloadReturn(r)
  \/ \E r \in Req : TranslateReturn(r)
  \/ \E r \in Req : SaveWrite(r)
  \/ \E r \in Req : SaveWriteFail(r)
  \/ ReaderOpen
  \/ ReaderRead
  \/ ReaderClose

Spec == Init /\ [][Next]_vars


(* -------------------------------- claims -------------------------------- *)

\* C1: for every request, whichever stage fails, the handler returns the
\* empty result: no fault ever reaches the protocol layer as a rejected
\* promise.
C1_NoFaultReachesProtocolLayer == \A r \in Req : result[r] # Rejected

\* C2: a request that starts after an earlier request for the same id
\* returned a reference calls neither the catalog, nor the download, nor
\* the translation service, and returns the reference to the cached entry.
C2_WarmRequestCallsNothing ==
  \A r \in Req :
    warm[r] => /\ calls[r] = <<>>
               /\ pc[r] = "done" => result[r] = Success(rev, rid[r])

\* The translated texts the deployed revision can write.
Writable == Outs \cup (IF rev = V100 THEN {EmptyOut} ELSE {})

\* C3: a read of an entry that runs while the entry is written observes no
\* entry or the whole of one written content, never a truncated or mixed one.
C3_ReaderSeesWholeEntry ==
  rd.st = "served" => \E o \in Writable : rd.seen = Bytes(o)

\* C4: after successful puts there is one entry per key, and the entry of a
\* key holds exactly the content of the most recent successful put for it.
C4_LastPutWins ==
  /\ \A p \in DOMAIN files :
       lastPut[p].clean => files[p] = Bytes(lastPut[p].out)
  /\ \A r, q \in Req :
       (rid[r] = rid[q] /\ wpath[r] # <<>> /\ wpath[q] # <<>>) => wpath[r] = wpath[q]

\* Two requests for one key have both written, with different contents.
C4_Witness ==
  \E r, q \in Req :
    /\ r # q
    /\ pc[r] = "done" /\ pc[q] = "done"
    /\ result[r].subtitles # <<>> /\ result[q].subtitles # <<>>
    /\ wpath[r] = wpath[q]
    /\ out[r] # out[q]
    /\ out[r] \in Outs /\ out[q] \in Outs
    /\ lastPut[wpath[r]] = [out |-> out[q], clean |-> TRUE]
    /\ files[wpath[r]] = Bytes(out[q])

\* The request was not rejected at the id check: a catalog search was made.
Accepted(r) == calls[r] # <<>>
\* The request's writeFileSync has opened its file.
Wrote(r) == wpath[r] # <<>>

\* C5 as claimed: 'tt0111161', '0111161' and 'tt0111161:1:2' are all
\* accepted, the first two are written to the same file and the third to
\* another one.
C5_AllThreeIdsNormalize ==
  \A r, q \in Req :
    /\ (pc[r] # "idle" /\ rid[r] \in {IdMovie, IdBare, IdEpisode}) => Accepted(r)
    /\ (Wrote(r) /\ Wrote(q) /\ rid[r] = IdMovie /\ rid[q] = IdBare)
         => wpath[r] = wpath[q]
    /\ (Wrote(r) /\ Wrote(q) /\ rid[r] = IdMovie /\ rid[q] = IdEpisode)
         => wpath[r] # wpath[q]

\* C5, amended: 'tt0111161' and 'tt0111161:1:2' are accepted and written to
\* different files; '0111161' is accepted by 1.0.0 alone, which writes it to
\* the file of 'tt0111161', and is answered with the empty result, before
\* any call, by 1.0.5 and 1.0.3.
C5_PrefixedIdsNormalize ==
  \A r, q \in Req :
    /\ (pc[r] # "idle" /\ rid[r] \in {IdMovie, IdEpisode}) => Accepted(r)
    /\ (pc[r] # "idle" /\ rid[r] = IdBare) =>
         IF rev = V100 THEN Accepted(r)
         ELSE pc[r] = "done" /\ result[r] = EmptyResult /\ ~Accepted(r)
    /\ (Wrote(r) /\ Wrote(q) /\ rid[r] = IdMovie /\ rid[q] = IdBare)
         => wpath[r] = wpath[q]
    /\ (Wrote(r) /\ Wrote(q) /\ rid[r] = IdMovie /\ rid[q] = IdEpisode)
         => wpath[r] # wpath[q]

\* The movie id and the episode id have both been written, by 1.0.5.
C5_Witness ==
  /\ rev = V105
  /\ \E r, q \in Req :
       /\ rid[r] = IdMovie /\ rid[q] = IdEpisode
       /\ pc[r] = "done" /\ pc[q] = "done"
       /\ result[r].subtitles # <<>> /\ result[q].subtitles # <<>>

\* C6: the translation service is never called with a downloaded text that
\* is empty, too short or without a '-->' separator.
C6_TranslatorGetsOnlyWellFormedText ==
  \A r \in Req :
    pc[r] = "translate" =>
      LET t == Payload(text[r]) IN t.isString /\ t.len > 0 /\ t.arrow

\* C7: a text of more than 1000 lines is never sent to the translation
\* service as one payload.
C7_NoPayloadOver1000Lines ==
  \A r \in Req : pc[r] = "translate" => Payload(text[r]).lines <= 1000

\* The text named n.
DocNamed(n) == CHOOSE d \in Docs : d.name = n

C9_EveryCallCarriesTimeout ==
  \A r \in Req : pc[r] \in Awaiting => TimeoutOf(rev, pc[r]) > 0

\* C10: every file written lies directly inside the cache directory.
C10_WritesStayInCacheDir ==
  \A p \in DOMAIN files : Dirname(p) = subsDir

\* C11: when the handler returns a non-empty result, the result holds one
\* reference, its language code is the one every reference carries, and the
\* file its url names exists at that moment and holds the translated text
\* this request wrote.
C11_ReferenceNamesWrittenEntry ==
  [][\A r \in Req :
       (pc[r] # "done" /\ pc'[r] = "done" /\ result'[r].subtitles # <<>>) =>
         LET ref == result'[r].subtitles[1]
             p == UrlFile(ref.url)
         IN  /\ Len(result'[r].subtitles) = 1
             /\ \A q \in Req : result[q].subtitles # <<>> =>
                                  result[q].subtitles[1].lang = ref.lang
             /\ p \in DOMAIN files'
             /\ out'[r] \in Writable
             /\ files'[p] = Bytes(out'[r])]_vars

\* C12: two requests for one id that were both under way before either had
\* written are both served by the whole pipeline; once both have returned a
\* reference, and no other request has the file open, there is one file for
\* the id, it holds the whole text of the one that wrote last and nothing of
\* the other, and the url of either reference names that file.
C12_ConcurrentSameKeyLastWriterWins ==
  \A r, q \in Req :
    (/\ r # q
     /\ rid[r] = rid[q]
     /\ pc[r] = "done" /\ pc[q] = "done"
     /\ result[r].subtitles # <<>> /\ result[q].subtitles # <<>>
     /\ ~warm[r] /\ ~warm[q]
     /\ \A s \in Req \ {r, q} : wpath[s] # wpath[r]) =>
       LET p == wpath[r]
       IN  /\ wpath[q] = p
           /\ calls[r] = calls[q]
           /\ lastPut[p].clean
           /\ lastPut[p].out \in {out[r], out[q]}
           /\ files[p] = Bytes(lastPut[p].out)
           /\ UrlFile(result[r].subtitles[1].url) = p

\* C13: when the catalog's list is empty, the response lacks the expected
\* fields or the first result has no file (whether or not a later result
\* has one), getEnglishSubtitleFileUrl gives "not found" to the handler and
\* the download-link call is not made.
C13_OnlyTopResultIsUsed ==
  \A r \in Req :
    (catalog[r] # <<>> /\ catalog[r][1] \in {"noData", "noList", "emptyList",
        "firstNoAttrs", "firstNoFiles", "nextHasFile"}) =>
      /\ fileUrl[r] = "null"
      /\ calls[r] = <<"search">>

\* C14: translateToHebrew never calls the translation service with an input
\* that is empty, blank or not a string.
C14_NoCallOnEmptyInput ==
  \A r \in Req :
    pc[r] = "translate" => text[r].isString /\ text[r].len > 0 /\ ~text[r].blank

\* The stages in the order the handler runs them.
Stages == <<"search", "link", "download", "translate", "write">>

\* C15: a request runs its stages in the one order, each only after the
\* one before it has succeeded: the download is called only with a url from
\* the catalog, the translation service only with a downloaded text that is
\* not empty, the write only with a translated text that is not empty.
C15_StagesRunInOrder ==
  \A r \in Req :
    LET c == calls[r]
    IN  /\ c = SubSeq(Stages, 1, Len(c))
        /\ Len(c) >= 3 => fileUrl[r] = "url"
        /\ pc[r] = "translate" =>
              text[r] # NoDoc /\ ~(text[r].isString /\ text[r].len = 0)
        /\ Len(c) = 5 => out[r] # EmptyOut

\* C16: a request that returns the empty result without having reached the
\* write has opened no file, and its return leaves every file as it was.
C16_FailureLeavesCacheUnchanged ==
  [][\A r \in Req :
       (/\ pc[r] # "done" /\ pc'[r] = "done"
        /\ result'[r] = EmptyResult
        /\ Len(calls'[r]) < Len(Stages)) =>
         /\ files' = files
         /\ lastPut' = lastPut
         /\ wpath'[r] = <<>>
         /\ out'[r] = NoOut]_vars

\* A request has failed at the translation while the file of its id, written
\* by an earlier request, holds that request's text.
C16_Witness ==
  \E r, q \in Req :
    /\ r # q /\ rid[r] = rid[q]
    /\ pc[r] = "done" /\ result[r] = EmptyResult
    /\ calls[r] = SubSeq(Stages, 1, 4)
    /\ pc[q] = "done" /\ result[q].subtitles # <<>>
    /\ out[q] \in Outs
    /\ files[wpath[q]] = Bytes(out[q])

\* C17: a request makes each of its calls (catalog search, download-link
\* call, download, translation, write) at most once, and makes no call
\* after it has returned.
C17_EachCallAtMostOnce ==
  [][\A r \in Req :
       /\ \A i, j \in 1..Len(calls'[r]) : calls'[r][i] = calls'[r][j] => i = j
       /\ pc[r] = "done" => (pc'[r] = "done" /\ calls'[r] = calls[r])]_vars

\* A request has made all five calls, the write has failed and the request
\* has returned the empty result.
C17_Witness ==
  \E r \in Req :
    /\ rev = V105
    /\ pc[r] = "done" /\ result[r] = EmptyResult
    /\ calls[r] = Stages
    /\ wpath[r] # <<>>

\* C18: whatever the catalog answers, getEnglishSubtitleFileUrl gives the
\* handler a url or "not found": it never throws.
C18_ResolveNeverThrows == \A r \in Req : fileUrl[r] # "throw"

\* C19: no step removes a file, and a file that did not exist comes into
\* being only in the step of a request that has just received the
\* translation of its text, a text that is not empty.
C19_CachedKeysOnlyGrow ==
  [][/\ DOMAIN files \subseteq DOMAIN files'
     /\ \A p \in DOMAIN files' \ DOMAIN files :
          \E r \in Req : /\ pc[r] = "translate"
                          /\ wpath'[r] = p
                          /\ out'[r] \in Outs
                          /\ out'[r].src = text[r].name]_vars

\* C20: two requests with different ids, both accepted, never write the
\* same file.
C20_DistinctIdsDistinctFiles ==
  \A r, q \in Req :
    (Accepted(r) /\ Accepted(q) /\ rid[r] # rid[q] /\ Wrote(r) /\ Wrote(q))
      => wpath[r] # wpath[q]

\* Two episodes of one series.
Episodes == {IdEpisode, IdEpisode2}

\* C21: requests for two different episodes of one series give the catalog
\* the same imdb_id, are written to different files and return references
\* with different ids.
C21_QueryDependsOnBaseIdOnly ==
  \A r, q \in Req :
    (/\ rid[r] \in Episodes /\ rid[q] \in Episodes /\ rid[r] # rid[q]
     /\ pc[r] # "idle" /\ pc[q] # "idle") =>
      /\ query[r] = query[q]
      /\ (Wrote(r) /\ Wrote(q)) => wpath[r] # wpath[q]
      /\ (result[r].subtitles # <<>> /\ result[q].subtitles # <<>>) =>
           result[r].subtitles[1].id # result[q].subtitles[1].id

====
